---- MODULE Spec2Model ----
(***************************************************************************)
(* Model of mcp_server.py: the start-up configuration gate, the MCP server *)
(* life cycle and the tool upload_csv_to_snowflake.  The CSV file, the     *)
(* process environment and the Snowflake table are the environment of the  *)
(* program; pandas, snowflake.connector and write_pandas are external      *)
(* calls whose outcome (return or raise an Exception) is nondeterministic. *)
(***************************************************************************)
EXTENDS Integers, Sequences, FiniteSets, TLC

(* ------------------------------ bounds -------------------------------- *)
\* largest number of data rows of the CSV file
MaxRows == 2
\* largest number of rows the remote table holds before the first call
MaxInitRows == 1
\* largest number of tool calls served by one process
MaxCalls == 2

(* --------------------------- environment ------------------------------ *)
REQUIRED_ENV ==
  << "CSV_PATH", "SNOWFLAKE_USER", "SNOWFLAKE_PASSWORD", "SNOWFLAKE_ACCOUNT",
     "SNOWFLAKE_WAREHOUSE", "SNOWFLAKE_DATABASE", "SNOWFLAKE_SCHEMA",
     "SNOWFLAKE_TABLE" >>

EnvNames == { REQUIRED_ENV[k] : k \in 1..Len(REQUIRED_ENV) }

\* os.getenv gives None for an absent variable, else its string value
None == "<None>"
EnvValues == { None, "", "x" }

\* Python truthiness of an os.getenv result: None and "" are falsy
Truthy(v) == v \notin { None, "" }

(* -------------------------- CSV file contents ------------------------- *)
\* A column name is a sequence of characters.  "sz" stands for the sharp s,
\* whose upper case is the two characters "S" "S".
LowerChars == { "a", "d", "e", "i", "l", "m", "n", "u", "v", "sz" }

UpperCharIdentity(c) == << c >>

UpperChar(c) ==
  CASE c = "a" -> << "A" >>
    [] c = "d" -> << "D" >>
    [] c = "e" -> << "E" >>
    [] c = "i" -> << "I" >>
    [] c = "l" -> << "L" >>
    [] c = "m" -> << "M" >>
    [] c = "n" -> << "N" >>
    [] c = "u" -> << "U" >>
    [] c = "v" -> << "V" >>
    [] c = "sz" -> << "S", "S" >>
    [] OTHER -> << c >>

RECURSIVE upper(_)
\* str.upper(): every character replaced by its upper-case mapping
upper(s) == IF s = << >> THEN << >> ELSE UpperChar(Head(s)) \o upper(Tail(s))

\* [col.upper() for col in df.columns]
UpperColumns(cols) == [ k \in 1..Len(cols) |-> upper(cols[k]) ]

\* header lines a CSV file may have
Headers ==
  { << << "i", "d" >>, << "N", "a", "m", "e" >>, << "V", "a", "l", "u", "e" >> >>,
    << << "I", "D" >>, << "C", "_", "1" >> >>,
    << << "m", "a", "sz" >> >> }

NoHeader == << >>

\* the file at CSV_PATH: absent, present but unparsable, or a CSV table
FileStates ==
  { [kind |-> "missing", rows |-> 0, header |-> NoHeader],
    [kind |-> "garbage", rows |-> 0, header |-> NoHeader] }
  \cup { [kind |-> "csv", rows |-> n, header |-> h] : n \in 0..MaxRows, h \in Headers }

\* os.path.exists(csv_path)
PathExists(f) == f.kind # "missing"

(* ------------------------------ state --------------------------------- *)
VARIABLES
  env,          \* process environment after load_dotenv()
  file,         \* the file at CSV_PATH
  table,        \* number of rows of the remote table
  pc,           \* position of the process in the module body
  i,            \* index of the validation loop over REQUIRED_ENV
  exitCode,     \* exit status of the process, -1 while it runs
  registered,   \* upload_csv_to_snowflake registered with the server
  validations,  \* number of environment tests executed (line 21)
  fileChecks,   \* number of file existence tests executed (line 27)
  ipc,          \* position inside upload_csv_to_snowflake, "idle" outside
  df,           \* the DataFrame of the running call
  conn,         \* the connection of the running call
  cur,          \* the cursor of the running call
  nrows,        \* third component of write_pandas' result
  row_count,    \* cur.fetchone()[0]
  calls,        \* external calls made by the running call, in order
  fileRead,     \* the file as the running call read it
  tableBefore,  \* rows of the remote table when the running call started
  openConns,    \* connections opened and not closed
  nextConn,     \* identity of the next connection
  invocations,  \* number of tool calls started
  returns,      \* number of results returned to the caller
  last,         \* record of the latest finished call
  escaped       \* an exception left upload_csv_to_snowflake

vars ==
  << env, file, table, pc, i, exitCode, registered, validations, fileChecks,
     ipc, df, conn, cur, nrows, row_count, calls, fileRead, tableBefore,
     openConns, nextConn, invocations, returns, last, escaped >>

startupVars == << pc, i, exitCode, registered, validations, fileChecks >>

callVars ==
  << ipc, df, conn, cur, nrows, row_count, calls, fileRead, tableBefore,
     openConns, nextConn, invocations, returns, last, escaped >>

NoConn == -1
NoDf == [rows |-> 0, columns |-> << >>]
NoFile == [kind |-> "unread", rows |-> 0, header |-> NoHeader]
NoResult == [status |-> "none"]
NoLast ==
  [result |-> NoResult, calls |-> << >>, fileRead |-> NoFile,
   tableBefore |-> 0, tableAfter |-> 0, opened |-> NoConn, leftOpen |-> FALSE,
   prev |-> "none", prevTotal |-> 0, sameFile |-> FALSE]

Init ==
  /\ env \in [EnvNames -> EnvValues]
  /\ file \in FileStates
  /\ table \in 0..MaxInitRows
  /\ pc = "check_env"
  /\ i = 1
  /\ exitCode = -1
  /\ registered = FALSE
  /\ validations = 0
  /\ fileChecks = 0
  /\ ipc = "idle"
  /\ df = NoDf
  /\ conn = NoConn
  /\ cur = NoConn
  /\ nrows = 0
  /\ row_count = 0
  /\ calls = << >>
  /\ fileRead = NoFile
  /\ tableBefore = 0
  /\ openConns = {}
  /\ nextConn = 0
  /\ invocations = 0
  /\ returns = 0
  /\ last = NoLast
  /\ escaped = FALSE

(* ------------------------------ start-up ------------------------------ *)
\* sys.exit(1)
Exit(code) ==
  /\ pc' = "exited"
  /\ exitCode' = code

\* os.getenv(var)
getenv(var) == env[var]

MissingOnlyAbsent(var) == getenv(var) = None

\* the test of line 21: `not os.getenv(var)`
Missing(var) == ~ Truthy(getenv(var))

\* one iteration of `for var in REQUIRED_ENV` (lines 20-23)
ValidateEnv ==
  /\ pc = "check_env"
  /\ validations' = validations + 1
  /\ IF Missing(REQUIRED_ENV[i])
       THEN Exit(1) /\ UNCHANGED i
       ELSE /\ exitCode' = exitCode
            /\ IF i = Len(REQUIRED_ENV)
                 THEN pc' = "check_file" /\ UNCHANGED i
                 ELSE pc' = "check_env" /\ i' = i + 1
  /\ UNCHANGED << env, file, table, registered, fileChecks >>
  /\ UNCHANGED callVars

\* lines 26-30
CheckCsvFile ==
  /\ pc = "check_file"
  /\ fileChecks' = fileChecks + 1
  /\ IF ~ PathExists(file)
       THEN Exit(1)
       ELSE pc' = "init_mcp" /\ exitCode' = exitCode
  /\ UNCHANGED << env, file, table, i, registered, validations >>
  /\ UNCHANGED callVars

\* lines 33-38: FastMCP("snowflake-tools") returns or raises
InitMcp ==
  /\ pc = "init_mcp"
  /\ \E ok \in BOOLEAN :
       IF ok THEN pc' = "register" /\ exitCode' = exitCode
             ELSE Exit(1)
  /\ UNCHANGED << env, file, table, i, registered, validations, fileChecks >>
  /\ UNCHANGED callVars

\* line 40: the decorator registers the tool
RegisterTool ==
  /\ pc = "register"
  /\ registered' = TRUE
  /\ pc' = "main"
  /\ UNCHANGED << env, file, table, i, exitCode, validations, fileChecks >>
  /\ UNCHANGED callVars

\* lines 88-91: mcp.run() starts serving
RunServer ==
  /\ pc = "main"
  /\ pc' = "serving"
  /\ UNCHANGED << env, file, table, i, exitCode, registered, validations, fileChecks >>
  /\ UNCHANGED callVars

\* lines 91-94: mcp.run() returns, or KeyboardInterrupt: the module body ends
StopServer ==
  /\ pc = "serving"
  /\ ipc = "idle"
  /\ Exit(0)
  /\ UNCHANGED << env, file, table, i, registered, validations, fileChecks >>
  /\ UNCHANGED callVars

\* lines 95-97: mcp.run() raises an Exception
FailServer ==
  /\ pc = "serving"
  /\ ipc = "idle"
  /\ Exit(1)
  /\ UNCHANGED << env, file, table, i, registered, validations, fileChecks >>
  /\ UNCHANGED callVars

\* the environment rewrites, replaces or removes the file between calls
EditFile ==
  /\ pc = "serving"
  /\ ipc = "idle"
  /\ \E f \in FileStates : f # file /\ file' = f
  /\ UNCHANGED << env, table >>
  /\ UNCHANGED startupVars
  /\ UNCHANGED callVars

(* ----------------------- results of the tool -------------------------- *)
\* an f-string is modelled by the sequence of its parts
ReadError(e) == [status |-> "error", message |-> << "Error reading CSV: ", e >>]

ConnectError(e) == [status |-> "error", message |-> << "Connection failed: ", e >>]

UploadRejected == [status |-> "error", message |-> << "Upload to Snowflake failed" >>]

UploadError(e) == [status |-> "error", message |-> << "Upload error: ", e >>]

SuccessSwapped(n, total) ==
  [status |-> "success", rows_uploaded |-> total, total_rows_in_table |-> n]

SuccessDelta(n, total) ==
  [status |-> "success", rows_uploaded |-> n, total_rows_in_table |-> n]

\* line 83
Success(n, total) ==
  [status |-> "success", rows_uploaded |-> n, total_rows_in_table |-> total]

\* what leaves a try statement: a returned result, or the exception itself
Returns(r) == [escapes |-> FALSE, result |-> r]
Propagates(e) == [escapes |-> TRUE, result |-> [status |-> "raised", message |-> << e >>]]

ReadHandlerNone(e) == Propagates(e)

\* lines 57-59
ReadHandler(e) == Returns(ReadError(e))

ConnectHandlerWrong(e) == Returns(UploadError(e))

\* lines 65-67
ConnectHandler(e) == Returns(ConnectError(e))

UploadHandlerNone(e) == Propagates(e)

UploadHandlerFixed(e) == Returns(UploadRejected)

\* lines 84-86
UploadHandler(e) == Returns(UploadError(e))

RejectedNever(success) == FALSE

\* line 72: `if not success`
Rejected(success) == ~ success

\* classification of a result by the stage that produced it
Kind(r) ==
  IF r.status = "success" THEN "success"
  ELSE IF r.status = "error"
    THEN CASE r.message[1] = "Error reading CSV: " -> "read"
           [] r.message[1] = "Connection failed: " -> "connect"
           [] r.message[1] = "Upload to Snowflake failed" -> "rejected"
           [] r.message[1] = "Upload error: " -> "upload"
           [] OTHER -> "other"
    ELSE r.status

\* an external call: the operation, the connection it runs on, what is
\* passed to it and how it ended ("ok", "false" or "raise")
Call(op, c, arg, out) == [op |-> op, conn |-> c, arg |-> arg, out |-> out]

Outcome(ok) == IF ok THEN "ok" ELSE "raise"

(* ------------------------ upload_csv_to_snowflake ---------------------- *)
\* the call ends: the locals die and the outcome is recorded
Return(out, callsNow, fileNow, tableNow, opened, openNow) ==
  /\ ipc' = "idle"
  /\ escaped' = (escaped \/ out.escapes)
  /\ returns' = IF out.escapes THEN returns ELSE returns + 1
  /\ last' = [result |-> out.result, calls |-> callsNow, fileRead |-> fileNow,
              tableBefore |-> tableBefore, tableAfter |-> tableNow,
              opened |-> opened, leftOpen |-> opened \in openNow,
              prev |-> Kind(last.result),
              prevTotal |-> IF Kind(last.result) = "success"
                              THEN last.result.total_rows_in_table ELSE 0,
              sameFile |-> fileNow = last.fileRead]
  /\ df' = NoDf
  /\ conn' = NoConn
  /\ cur' = NoConn
  /\ nrows' = 0
  /\ row_count' = 0
  /\ calls' = << >>
  /\ fileRead' = NoFile
  /\ tableBefore' = 0

\* a tool-call request is dispatched to the registered tool (lines 46-50)
Invoke ==
  /\ pc = "serving"
  /\ registered
  /\ ipc = "idle"
  /\ invocations < MaxCalls
  /\ invocations' = invocations + 1
  /\ ipc' = "read_csv"
  /\ tableBefore' = table
  /\ UNCHANGED << env, file, table >>
  /\ UNCHANGED startupVars
  /\ UNCHANGED << df, conn, cur, nrows, row_count, calls, fileRead,
                  openConns, nextConn, returns, last, escaped >>

\* the exception pd.read_csv raises on a file it cannot read
ReadFailure(f) == IF f.kind = "missing" THEN "FileNotFoundError" ELSE "ParserError"

\* lines 53-59
ReadCsv ==
  /\ ipc = "read_csv"
  /\ LET c == Append(calls, Call("read_csv", NoConn, << >>, Outcome(file.kind = "csv"))) IN
       IF file.kind = "csv"
         THEN /\ df' = [rows |-> file.rows, columns |-> UpperColumns(file.header)]
              /\ calls' = c
              /\ fileRead' = file
              /\ ipc' = "connect"
              /\ UNCHANGED << conn, cur, nrows, row_count, tableBefore, returns,
                              last, escaped >>
         ELSE Return(ReadHandler(ReadFailure(file)), c, file, table, NoConn, openConns)
  /\ UNCHANGED << env, file, table >>
  /\ UNCHANGED startupVars
  /\ UNCHANGED << openConns, nextConn, invocations >>

\* lines 62-67: snowflake.connector.connect returns a connection or raises
Connect ==
  /\ ipc = "connect"
  /\ \E ok \in BOOLEAN :
       LET c == Append(calls, Call("connect", NoConn, << >>, Outcome(ok))) IN
         IF ok
           THEN /\ conn' = nextConn
                /\ nextConn' = nextConn + 1
                /\ openConns' = openConns \cup { nextConn }
                /\ calls' = c
                /\ ipc' = "write_pandas"
                /\ UNCHANGED << df, cur, nrows, row_count, fileRead, tableBefore,
                                returns, last, escaped >>
           ELSE /\ Return(ConnectHandler("DatabaseError"), c, fileRead, table,
                          NoConn, openConns)
                /\ UNCHANGED << openConns, nextConn >>
  /\ UNCHANGED << env, file, table >>
  /\ UNCHANGED startupVars
  /\ UNCHANGED invocations

\* what write_pandas(conn, df, table) may do: load every row and report
\* success, report failure, or raise; a failed load may have loaded a part
WritePandasOutcomes(d) ==
  { [out |-> "ok", success |-> TRUE, nrows |-> d.rows, loaded |-> d.rows] }
  \cup { [out |-> "false", success |-> FALSE, nrows |-> k, loaded |-> k] : k \in 0..d.rows }
  \cup { [out |-> "raise", success |-> FALSE, nrows |-> 0, loaded |-> k] : k \in 0..d.rows }

\* lines 71-74
WritePandas ==
  /\ ipc = "write_pandas"
  /\ \E w \in WritePandasOutcomes(df) :
       LET c == Append(calls, Call("write_pandas", conn, df.columns, w.out)) IN
         /\ table' = table + w.loaded
         /\ IF w.out = "raise"
              THEN Return(UploadHandler("write_pandas"), c, fileRead, table',
                          conn, openConns)
              ELSE IF Rejected(w.success)
                THEN Return(Returns(UploadRejected), c, fileRead, table',
                            conn, openConns)
                ELSE /\ nrows' = w.nrows
                     /\ calls' = c
                     /\ ipc' = "cursor"
                     /\ UNCHANGED << df, conn, cur, row_count, fileRead,
                                     tableBefore, returns, last, escaped >>
  /\ UNCHANGED << env, file >>
  /\ UNCHANGED startupVars
  /\ UNCHANGED << openConns, nextConn, invocations >>

\* line 77: conn.cursor() returns a cursor on conn or raises
Cursor ==
  /\ ipc = "cursor"
  /\ \E ok \in BOOLEAN :
       LET c == Append(calls, Call("cursor", conn, << >>, Outcome(ok))) IN
         IF ok
           THEN /\ cur' = conn
                /\ calls' = c
                /\ ipc' = "execute"
                /\ UNCHANGED << df, conn, nrows, row_count, fileRead,
                                tableBefore, returns, last, escaped >>
           ELSE Return(UploadHandler("cursor"), c, fileRead, table, conn, openConns)
  /\ UNCHANGED << env, file, table >>
  /\ UNCHANGED startupVars
  /\ UNCHANGED << openConns, nextConn, invocations >>

\* the text of the verification query
CountQuery == << "SELECT COUNT(*) FROM ", "SNOWFLAKE_TABLE" >>

\* line 78: cur.execute("SELECT COUNT(*) FROM <table>") returns or raises
Execute ==
  /\ ipc = "execute"
  /\ \E ok \in BOOLEAN :
       LET c == Append(calls, Call("execute", cur, CountQuery, Outcome(ok))) IN
         IF ok
           THEN /\ calls' = c
                /\ ipc' = "fetchone"
                /\ UNCHANGED << df, conn, cur, nrows, row_count, fileRead,
                                tableBefore, returns, last, escaped >>
           ELSE Return(UploadHandler("execute"), c, fileRead, table, conn, openConns)
  /\ UNCHANGED << env, file, table >>
  /\ UNCHANGED startupVars
  /\ UNCHANGED << openConns, nextConn, invocations >>

\* line 79: cur.fetchone()[0] is the row count of the table, or raises
Fetchone ==
  /\ ipc = "fetchone"
  /\ \E ok \in BOOLEAN :
       LET c == Append(calls, Call("fetchone", cur, << >>, Outcome(ok))) IN
         IF ok
           THEN /\ row_count' = table
                /\ calls' = c
                /\ ipc' = "cur_close"
                /\ UNCHANGED << df, conn, cur, nrows, fileRead,
                                tableBefore, returns, last, escaped >>
           ELSE Return(UploadHandler("fetchone"), c, fileRead, table, conn, openConns)
  /\ UNCHANGED << env, file, table >>
  /\ UNCHANGED startupVars
  /\ UNCHANGED << openConns, nextConn, invocations >>

\* line 80: cur.close() returns or raises
CurClose ==
  /\ ipc = "cur_close"
  /\ \E ok \in BOOLEAN :
       LET c == Append(calls, Call("cur.close", cur, << >>, Outcome(ok))) IN
         IF ok
           THEN /\ cur' = NoConn
                /\ calls' = c
                /\ ipc' = "conn_close"
                /\ UNCHANGED << df, conn, nrows, row_count, fileRead,
                                tableBefore, returns, last, escaped >>
           ELSE Return(UploadHandler("cur.close"), c, fileRead, table, conn, openConns)
  /\ UNCHANGED << env, file, table >>
  /\ UNCHANGED startupVars
  /\ UNCHANGED << openConns, nextConn, invocations >>

\* lines 81-83: conn.close() closes the connection and the call returns the
\* success result; when it raises the connection may or may not be closed
ConnClose ==
  /\ ipc = "conn_close"
  /\ \E ok \in BOOLEAN, closed \in BOOLEAN :
       LET c == Append(calls, Call("conn.close", conn, << >>, Outcome(ok))) IN
         /\ ok => closed
         /\ openConns' = IF closed THEN openConns \ { conn } ELSE openConns
         /\ IF ok
              THEN Return(Returns(Success(nrows, row_count)), c, fileRead, table,
                          conn, openConns')
              ELSE Return(UploadHandler("conn.close"), c, fileRead, table,
                          conn, openConns')
  /\ UNCHANGED << env, file, table >>
  /\ UNCHANGED startupVars
  /\ UNCHANGED << nextConn, invocations >>

(* --------------------------- specification ---------------------------- *)
Next ==
  \/ ValidateEnv
  \/ CheckCsvFile
  \/ InitMcp
  \/ RegisterTool
  \/ RunServer
  \/ StopServer
  \/ FailServer
  \/ EditFile
  \/ Invoke
  \/ ReadCsv
  \/ Connect
  \/ WritePandas
  \/ Cursor
  \/ Execute
  \/ Fetchone
  \/ CurClose
  \/ ConnClose

Spec == Init /\ [][Next]_vars

TypeOK ==
  /\ pc \in { "check_env", "check_file", "init_mcp", "register", "main",
              "serving", "exited" }
  /\ ipc \in { "idle", "read_csv", "connect", "write_pandas", "cursor",
               "execute", "fetchone", "cur_close", "conn_close" }
  /\ exitCode \in { -1, 0, 1 }
  /\ invocations \in 0..MaxCalls
  /\ table \in 0..(MaxInitRows + MaxCalls * MaxRows)

(* ------------------------- helpers of the claims ----------------------- *)
\* the call logs the state holds: the running call's and the last finished
Logs == { calls, last.calls }

Ops(log, op) == { k \in 1..Len(log) : log[k].op = op }

Did(log, op, out) == \E k \in Ops(log, op) : log[k].out = out

Finished == ipc = "idle" /\ last.result # NoResult

\* every one of the eight external calls was made and succeeded
AllSucceeded(log) ==
  /\ Len(log) = 8
  /\ \A k \in 1..Len(log) : log[k].out = "ok"

WellFormed(r) ==
  \/ /\ DOMAIN r = { "status", "rows_uploaded", "total_rows_in_table" }
     /\ r.status = "success"
     /\ r.rows_uploaded \in Nat
     /\ r.total_rows_in_table \in Nat
  \/ /\ DOMAIN r = { "status", "message" }
     /\ r.status = "error"
     /\ Len(r.message) \in { 1, 2 }

IsUpperCase(name) == \A k \in 1..Len(name) : name[k] \notin LowerChars

BadEnv == \E v \in EnvNames : env[v] \in { None, "" }

(* -------------------------------- C1 ---------------------------------- *)
\* C1: whatever the external calls do, no exception leaves
\* upload_csv_to_snowflake, every finished call has returned exactly one
\* result, and that result is a well-formed success or error object.
C1_AlwaysAResult ==
  /\ ~ escaped
  /\ returns = (IF ipc = "idle" THEN invocations ELSE invocations - 1)
  /\ Finished => WellFormed(last.result)

\* a call whose connection's close raised, after a call that succeeded
C1_Witness ==
  /\ Finished
  /\ Did(last.calls, "conn.close", "raise")
  /\ last.prev = "success"

(* -------------------------------- C2 ---------------------------------- *)
\* C2: when parse, connect, bulk insert and verification all succeed on a
\* file of N rows and a table of M rows, the result is success with
\* rows_uploaded = N and total_rows_in_table = M + N; a success is never
\* reported without the bulk insert and the count query, also for N = 0.
C2_CountsOnSuccess ==
  Finished =>
    /\ AllSucceeded(last.calls) =>
         /\ Kind(last.result) = "success"
         /\ last.result.rows_uploaded = last.fileRead.rows
         /\ last.result.total_rows_in_table = last.tableBefore + last.fileRead.rows
    /\ Kind(last.result) = "success" =>
         /\ AllSucceeded(last.calls)
         /\ Did(last.calls, "write_pandas", "ok")
         /\ Did(last.calls, "execute", "ok")

\* an empty file uploaded with success into a table that has rows
C2_Witness ==
  /\ Finished
  /\ AllSucceeded(last.calls)
  /\ last.fileRead.rows = 0
  /\ last.tableBefore > 0
  /\ last.result = Success(0, last.tableBefore)

(* -------------------------------- C3 ---------------------------------- *)
\* two successful calls in succession on an unchanged file
TwiceInSuccession ==
  /\ Finished
  /\ Kind(last.result) = "success"
  /\ last.prev = "success"
  /\ last.sameFile

\* C3 as stated: the second call's total_rows_in_table is twice the first's.
C3_Original_Doubles ==
  TwiceInSuccession => last.result.total_rows_in_table = 2 * last.prevTotal

\* C3 amended: the second call's total is the first call's total plus the
\* rows of the file; it is twice the first call's total exactly when the
\* table was empty before the first call.
C3_SecondAddsFileRows ==
  TwiceInSuccession =>
    /\ last.result.total_rows_in_table = last.prevTotal + last.fileRead.rows
    /\ last.result.rows_uploaded = last.fileRead.rows
    /\ (last.prevTotal = last.fileRead.rows) <=>
         (last.result.total_rows_in_table = 2 * last.prevTotal)

\* the second of two successful uploads of a file with rows
C3_Witness ==
  /\ TwiceInSuccession
  /\ last.fileRead.rows > 0
  /\ last.prevTotal > last.fileRead.rows

(* -------------------------------- C4 ---------------------------------- *)
\* C4: a call whose connect raised returns the "Connection failed: ..."
\* error, made no write_pandas call and no count query, and no call ever
\* attempts connect more than once.
C4_ConnectFailure ==
  /\ \A log \in Logs : Cardinality(Ops(log, "connect")) <= 1
  /\ (Finished /\ Did(last.calls, "connect", "raise")) =>
       /\ Kind(last.result) = "connect"
       /\ last.result = ConnectError("DatabaseError")
       /\ Ops(last.calls, "write_pandas") = {}
       /\ Ops(last.calls, "execute") = {}
       /\ Cardinality(Ops(last.calls, "connect")) = 1
       /\ last.tableAfter = last.tableBefore

C4_Witness ==
  /\ Finished
  /\ Did(last.calls, "connect", "raise")
  /\ last.fileRead.rows > 0

(* -------------------------------- C5 ---------------------------------- *)
\* the step in which pd.read_csv raises
ReadFails == ipc = "read_csv" /\ file.kind # "csv"

\* the result of a call whose parse failed, and what the call did
C5_ReadErrorResult ==
  (Finished /\ Did(last.calls, "read_csv", "raise")) =>
    /\ Kind(last.result) = "read"
    /\ Len(last.calls) = 1
    /\ last.opened = NoConn

\* an idle server accepts a call
C5_StillServing ==
  (pc = "serving" /\ ipc = "idle" /\ invocations < MaxCalls) => ENABLED Invoke

\* C5: a call whose parse failed returns the "Error reading CSV: ..." error
\* after the read alone (no connect, bulk load or query), the failing step
\* leaves the process serving, and the server accepts a further call.
C5_ReadFailure ==
  /\ [](C5_ReadErrorResult /\ C5_StillServing)
  /\ [][ReadFails =>
          /\ ipc' = "idle"
          /\ pc' = "serving"
          /\ exitCode' = -1
          /\ escaped' = escaped
          /\ returns' = returns + 1
          /\ Kind(last'.result) = "read"]_vars

\* a successful call right after a call whose parse failed
C5_Witness ==
  /\ Finished
  /\ Kind(last.result) = "success"
  /\ last.prev = "read"

(* -------------------------------- C6 ---------------------------------- *)
\* C6: with a required setting absent or empty, or no file at CSV_PATH, the
\* process is past the checks only as exited with status 1, the tool is not
\* registered and never invoked; the checks are made once, before serving.
C6_ConfigurationGate ==
  /\ (~ registered /\ (BadEnv \/ ~ PathExists(file))
        /\ pc \notin { "check_env", "check_file" }) =>
       (pc = "exited" /\ exitCode = 1)
  /\ BadEnv => (pc \in { "check_env", "exited" } /\ ~ registered /\ invocations = 0)
  /\ (pc = "exited" /\ ~ registered) => (exitCode = 1 /\ invocations = 0)
  /\ invocations > 0 => registered
  /\ registered => (validations = Len(REQUIRED_ENV) /\ fileChecks = 1)
  /\ validations <= Len(REQUIRED_ENV)
  /\ fileChecks <= 1

\* only the last setting is bad, and it is empty, not absent
C6_Witness ==
  /\ pc = "exited"
  /\ exitCode = 1
  /\ env["SNOWFLAKE_TABLE"] = ""
  /\ \A v \in EnvNames \ { "SNOWFLAKE_TABLE" } : Truthy(env[v])
  /\ validations = Len(REQUIRED_ENV)

(* -------------------------------- C7 ---------------------------------- *)
\* C7: every column name handed to write_pandas is upper case, whatever the
\* casing in the file; id,Name,Value is sent as ID,NAME,VALUE.
C7_UpperCaseColumns ==
  /\ \A log \in Logs : \A k \in Ops(log, "write_pandas") :
       \A c \in 1..Len(log[k].arg) : IsUpperCase(log[k].arg[c])
  /\ (Finished /\ Ops(last.calls, "write_pandas") # {}) =>
       \A k \in Ops(last.calls, "write_pandas") :
         /\ Len(last.calls[k].arg) = Len(last.fileRead.header)
         /\ last.fileRead.header =
              << << "i", "d" >>, << "N", "a", "m", "e" >>, << "V", "a", "l", "u", "e" >> >>
            => last.calls[k].arg =
              << << "I", "D" >>, << "N", "A", "M", "E" >>, << "V", "A", "L", "U", "E" >> >>

C7_Witness ==
  /\ Finished
  /\ \E k \in Ops(last.calls, "write_pandas") :
       last.calls[k].arg =
         << << "I", "D" >>, << "N", "A", "M", "E" >>, << "V", "A", "L", "U", "E" >> >>
  /\ last.fileRead.header[1] = << "i", "d" >>

(* -------------------------------- C8 ---------------------------------- *)
\* C8 as stated: on every exit path the connection a call opened is closed
\* when the call returns, so no connection is open between calls.
C8_Original_ClosedOnReturn ==
  ipc = "idle" => (openConns = {} /\ ~ last.leftOpen)

(* -------------------------------- C9 ---------------------------------- *)
\* C9: a call whose write_pandas returned success = false returns the fixed
\* "Upload to Snowflake failed" error without raising and without a count
\* query; a count query runs only after a write_pandas that reported
\* success, on the connection of that write_pandas.
C9_RejectedLoad ==
  /\ (Finished /\ Did(last.calls, "write_pandas", "false")) =>
       /\ last.result = UploadRejected
       /\ ~ escaped
       /\ Ops(last.calls, "execute") = {}
       /\ Ops(last.calls, "cursor") = {}
  /\ \A log \in Logs : \A k \in Ops(log, "execute") :
       /\ log[k].arg = CountQuery
       /\ \E j \in Ops(log, "write_pandas") :
            /\ j < k
            /\ log[j].out = "ok"
            /\ log[j].conn = log[k].conn
            /\ log[j].conn # NoConn

C9_Witness ==
  /\ Finished
  /\ Did(last.calls, "write_pandas", "false")
  /\ last.fileRead.rows > 0

(* -------------------------------- C10 --------------------------------- *)
\* the verification (cursor, execute, fetchone) raised
VerificationRaised(log) ==
  \/ Did(log, "cursor", "raise")
  \/ Did(log, "execute", "raise")
  \/ Did(log, "fetchone", "raise")

\* at most one write_pandas per call, and no change of the table before it
C10_OneLoad ==
  /\ \A log \in Logs : Cardinality(Ops(log, "write_pandas")) <= 1
  /\ (ipc # "idle" /\ Ops(calls, "write_pandas") = {}) => table = tableBefore

\* the table after a finished call, by the way the call ended
C10_FrameOfResults ==
  Finished =>
    /\ Ops(last.calls, "write_pandas") = {} => last.tableAfter = last.tableBefore
    /\ Kind(last.result) \in { "read", "connect" } => last.tableAfter = last.tableBefore
    /\ (Did(last.calls, "write_pandas", "ok") /\ VerificationRaised(last.calls)) =>
         /\ Kind(last.result) = "upload"
         /\ last.tableAfter = last.tableBefore + last.fileRead.rows

\* C10: a call makes at most one write_pandas call and the table changes in
\* no other step; after a read error or a connection error the table is as
\* before the call; rows loaded by a successful write_pandas stay in the
\* table when the verification raises and the call returns "Upload error".
C10_TableFrame ==
  /\ [](C10_OneLoad /\ C10_FrameOfResults)
  /\ [][table' # table => ipc = "write_pandas"]_vars

\* rows stay after the count query raised
C10_Witness ==
  /\ Finished
  /\ Did(last.calls, "write_pandas", "ok")
  /\ Did(last.calls, "execute", "raise")
  /\ last.fileRead.rows > 0
  /\ table = last.tableBefore + last.fileRead.rows

====
